---------------------------- MODULE Spec2Model ----------------------------
(***************************************************************************)
(* A model of src/assignment_portofolio.py, a Streamlit sales dashboard.   *)
(*                                                                         *)
(* The script is re-executed from top to bottom on every user interaction. *)
(* One action of the model is one interaction followed by the whole script *)
(* run it triggers.  State that survives a run: the two files on disk, the *)
(* two process-wide caches (st.cache_data, st.cache_resource), the widget  *)
(* values of the session, and what the last run left on the page.          *)
(*                                                                         *)
(* Columns of the dataset keep their names.  Columns no modelled           *)
(* computation reads (Harga_Satuan, Diskon, Metode_Pembayaran) are left    *)
(* out.  Numbers are integers; a quotient is kept as a fraction.           *)
(***************************************************************************)
EXTENDS Integers, Sequences, FiniteSets

\* ------------------------------------------------------------------ bounds

\* Longest dataset of the date, selection and metric families.
MaxRecs == 2
\* Order dates fall on days 1..MaxDay.
MaxDay == 2
\* Total_Penjualan of a record ranges over 0..MaxAmount.
MaxAmount == 2
\* Longest dataset of the month family.
MaxMonthRecs == 3
\* Records appended to the eleven-product base of the product family.
MaxTopExtra == 2

\* nlargest(10) in the top-products table.
TopN == 10

\* --------------------------------------------------------- value domains

Days == 1..MaxDay
\* Times of day a Tanggal_Pesanan may carry: 0 is midnight, 1 is later that day.
TimesOfDay == {0, 1}
TicksPerDay == Cardinality(TimesOfDay)

Regions == {"Jawa", "Sumatra"}
Categories == {"Elektronik", "Pakaian"}
\* Total_Penjualan is quantity x unit price x (1 - discount), read as stored:
\* never negative, and 0 for a fully discounted or empty sale.
Amounts == 0..MaxAmount
\* OrderID 0 stands for a missing order id (NaN after read_csv).
NaN == 0
OrderIDs == {NaN, 1, 2}

\* A month label of the Bulan column is text.  fmt "iso" is "2024-01";
\* fmt "name" is "Jan 2024".  One dataset uses one format.
MonthFormats == {"iso", "name"}
\* <<year, month>>: Dec 2023, Jan 2024, Apr 2024.
MonthsOfData == {<<2023, 12>>, <<2024, 1>>, <<2024, 4>>}

\* Alphabetical position of the English month abbreviation of month m:
\* Apr Aug Dec Feb Jan Jul Jun Mar May Nov Oct Sep.
AlphaRank(m) ==
    CASE m = 4 -> 1 [] m = 8 -> 2 [] m = 12 -> 3 [] m = 2 -> 4
      [] m = 1 -> 5 [] m = 7 -> 6 [] m = 6 -> 7 [] m = 3 -> 8
      [] m = 5 -> 9 [] m = 11 -> 10 [] m = 10 -> 11 [] m = 9 -> 12

Label(f, ym) == [fmt |-> f, y |-> ym[1], m |-> ym[2]]

\* The position of a label among texts compared character by character.
LexRank(l) ==
    IF l.fmt = "iso" THEN l.y * 100 + l.m ELSE AlphaRank(l.m) * 10000 + l.y

\* One row of data/retail_store.csv as read_csv returns it: Tanggal_Pesanan is
\* still text, kept as its day and its time of day.
Row(o, d, t, w, k, p, a, b) ==
    [OrderID |-> o, Tanggal_Pesanan |-> [day |-> d, tod |-> t], Wilayah |-> w,
     Kategori |-> k, Produk |-> p, Jumlah |-> 1, Total_Penjualan |-> a,
     Bulan |-> b]

DefaultLabel == Label("iso", <<2024, 1>>)

SeqsUpTo(S, n) == UNION {[1..k -> S] : k \in 1..n}

\* Datasets that differ in their order dates.
DateRows == {Row(1, d, t, "Jawa", "Elektronik", 1, 1, DefaultLabel) :
                d \in Days, t \in TimesOfDay}
DateDatasets == SeqsUpTo(DateRows, MaxRecs)

\* Datasets that differ in region, category and time of day.
SelRows == {Row(1, 1, t, w, k, 1, 1, DefaultLabel) :
                t \in TimesOfDay, w \in Regions, k \in Categories}
SelDatasets == SeqsUpTo(SelRows, MaxRecs)

\* Datasets that differ in order id and amount.
AggRows == {Row(o, 1, 0, "Jawa", "Elektronik", 1, a, DefaultLabel) :
                o \in OrderIDs, a \in Amounts}
AggDatasets == SeqsUpTo(AggRows, MaxRecs)

\* Datasets that differ in month label and amount, in either label format.
MonthRows(f) == {Row(1, 1, 0, "Jawa", "Elektronik", 1, a, Label(f, ym)) :
                a \in {1, 2}, ym \in MonthsOfData}
MonthDatasets == UNION {SeqsUpTo(MonthRows(f), MaxMonthRecs) : f \in MonthFormats}

\* Datasets with more products than the top-products table holds: one record
\* for each of the products 1..TopN+1, then up to MaxTopExtra more.
TopBase == [i \in 1..(TopN + 1) |->
                Row(i, 1, 0, "Jawa", "Elektronik", i, 1 + (i % 2), DefaultLabel)]
TopExtraRows == {Row(1, 1, 0, "Jawa", "Elektronik", p, a, DefaultLabel) :
                p \in {1, TopN + 1, TopN + 2}, a \in {0, MaxAmount + 1}}
TopDatasets == {TopBase} \cup
               {TopBase \o x : x \in SeqsUpTo(TopExtraRows, MaxTopExtra)}

OneDataset == <<Row(1, 1, 0, "Jawa", "Elektronik", 1, 1, DefaultLabel)>>

\* ------------------------------------------------------ the model bundle

\* The six features, named after the script's variables that hold their values.
FeatureNames == <<"target_date_ordinal", "avg_quantity", "avg_unit_price",
                  "avg_discount", "day_of_week_encoded", "hour_of_day">>
FeatureSet == {FeatureNames[i] : i \in 1..6}

Permutations6 == {f \in [1..6 -> FeatureSet] : \A i, j \in 1..6 : f[i] = f[j] => i = j}

\* model/model_sales.pkl: the estimator (one whose predict returns, or one whose
\* predict raises), the feature-name list and the base date.
Bundle(e, f) == [estimator |-> e, model_features |-> f, base_month_ordinal |-> 738000]
CanonicalBundle == Bundle("fitted", FeatureNames)
\* A bundle with the same estimator and the feature list reversed: what the file
\* holds after it is rewritten.
OtherBundle == Bundle("fitted", [i \in 1..6 |-> FeatureNames[7 - i]])
PredictBundles ==
    {Bundle(e, f) : e \in {"fitted", "raising"}, f \in Permutations6}
    \cup {Bundle("fitted", SubSeq(FeatureNames, 1, 5)),
          Bundle("fitted", FeatureNames \o <<"extra">>)}


\* ------------------------------------------------------- pandas, modelled

\* pd.to_datetime on text: the timestamp, counted in ticks.
ParseTimestamp(text) == text.day * TicksPerDay + text.tod

\* df['Tanggal_Pesanan'] = pd.to_datetime(df['Tanggal_Pesanan'])
ToDatetimeColumn(df) ==
    [i \in DOMAIN df |->
        [df[i] EXCEPT !.Tanggal_Pesanan = ParseTimestamp(df[i].Tanggal_Pesanan)]]

\* Timestamp.date(): the day a timestamp falls on.
DateOf(ts) == ts \div TicksPerDay

\* pd.to_datetime on a datetime.date: midnight of that day.
DateToTimestamp(d) == d * TicksPerDay

SetMin(S) == CHOOSE x \in S : \A y \in S : x <= y
SetMax(S) == CHOOSE x \in S : \A y \in S : x >= y

\* Series.sum() of Total_Penjualan.
RECURSIVE SumTotals(_)
SumTotals(df) ==
    IF df = <<>> THEN 0 ELSE df[1].Total_Penjualan + SumTotals(Tail(df))

\* Series.sum() of Jumlah.
RECURSIVE SumJumlah(_)
SumJumlah(df) ==
    IF df = <<>> THEN 0 ELSE df[1].Jumlah + SumJumlah(Tail(df))

\* Series.nunique(): distinct values, missing ones not counted.
NUnique(df) == Cardinality({df[i].OrderID : i \in DOMAIN df} \ {NaN})

\* numpy's true division: dividing by zero gives inf or nan, not a quotient.
TrueDivide(a, b) ==
    IF b = 0
    THEN [kind |-> IF a = 0 THEN "nan" ELSE "inf", num |-> a, den |-> 0]
    ELSE [kind |-> "finite", num |-> a, den |-> b]

\* Python's int 0, as a fraction.
IntZero == [kind |-> "finite", num |-> 0, den |-> 1]

\* The elements of a set of <<rank, value>> pairs, by ascending rank.
RECURSIVE ByRank(_)
ByRank(S) ==
    IF S = {} THEN <<>>
    ELSE LET lo == CHOOSE x \in S : \A y \in S : x[1] <= y[1]
         IN  <<lo[2]>> \o ByRank(S \ {lo})

\* groupby('Produk')['Total_Penjualan'].sum(): one row per product, by
\* ascending product.
GroupByProduk(df) ==
    LET keys == {df[i].Produk : i \in DOMAIN df}
        row(k) == [Produk |-> k,
                   Total_Penjualan |-> SumTotals(SelectSeq(df, LAMBDA r : r.Produk = k))]
    IN  ByRank({<<k, row(k)>> : k \in keys})

\* groupby('Bulan')['Total_Penjualan'].sum(): one row per label, by ascending
\* label text.
GroupByBulan(df) ==
    LET keys == {df[i].Bulan : i \in DOMAIN df}
        row(k) == [Bulan |-> k,
                   Total_Penjualan |-> SumTotals(SelectSeq(df, LAMBDA r : r.Bulan = k))]
    IN  ByRank({<<LexRank(k), row(k)>> : k \in keys})

RemoveAt(s, i) == SubSeq(s, 1, i - 1) \o SubSeq(s, i + 1, Len(s))

\* Series.nlargest(n): the n largest values, largest first, equal values in
\* the order they had (keep='first').
RECURSIVE NLargest(_, _)
NLargest(n, s) ==
    IF n = 0 \/ s = <<>> THEN <<>>
    ELSE LET i == CHOOSE i \in 1..Len(s) :
                    /\ \A j \in 1..Len(s) : s[j].Total_Penjualan <= s[i].Total_Penjualan
                    /\ \A j \in 1..(i - 1) : s[j].Total_Penjualan < s[i].Total_Penjualan
         IN  <<s[i]>> \o NLargest(n - 1, RemoveAt(s, i))

\* pd.to_datetime(label).dt.to_period('M'): the month a label denotes.
ToPeriod(l) == l.y * 12 + (l.m - 1)

\* Period.astype(str): always "YYYY-MM".
PeriodToStr(p) == [fmt |-> "iso", y |-> p \div 12, m |-> (p % 12) + 1]

\* The table left in groupby's order.
SortByPeriod_Unsorted(t) == t

\* sort_values('Bulan') on periods.
SortByPeriod(t) == ByRank({<<t[i].Bulan, t[i]>> : i \in DOMAIN t})


\* ------------------------------------------------------------------ state

VARIABLES
    csv_file,               \* data/retail_store.csv on disk
    pkl_file,               \* model/model_sales.pkl on disk
    data_cache,             \* st.cache_data's entry for load_data
    resource_cache,         \* st.cache_resource's entry for load_model
    csv_reads,              \* times read_csv has run
    pkl_reads,              \* times pickle.load has run
    history,                \* "fresh", "replaced" (a file was rewritten), "rerun_after_replace"
    pilihan_halaman,        \* the page radio
    date_range,             \* the date-range picker: 0, 1 or 2 dates
    selected_regions,       \* the Wilayah multiselect
    selected_categories,    \* the Kategori multiselect
    pred_widgets,           \* the six inputs of the prediction form
    df_sales,               \* the dataset the last run worked on
    sales_prediction_model, \* the estimator the last run held
    model_features,         \* the feature-name list the last run held
    base_month_ordinal,     \* the base date the last run held
    filtered_df,
    total_sales,
    total_orders,
    avg_order_value,
    total_products_sold,
    sales_by_month,
    top_products_sales,
    button_clicked,         \* what st.button returned in the last run
    input_for_prediction,   \* the feature row: a sequence of [column, value]
    run_status,             \* "not_run", "completed", "stopped", "exception"
    rendered,               \* the sections the last run put on the page, in order
    messages                \* st.warning / st.success / st.error boxes, and the
                            \* framework's box for an uncaught exception

disk == <<csv_file, pkl_file>>
process == <<data_cache, resource_cache, csv_reads, pkl_reads>>
widgets == <<pilihan_halaman, date_range, selected_regions, selected_categories,
             pred_widgets>>
names == <<df_sales, sales_prediction_model, model_features, base_month_ordinal,
           filtered_df, total_sales, total_orders, avg_order_value,
           total_products_sold, sales_by_month, top_products_sales,
           button_clicked, input_for_prediction>>
page == <<run_status, rendered, messages>>
vars == <<disk, process, history, widgets, names, page>>

Overview == "Overview Dashboard"
Prediksi == "Prediksi Penjualan"

\* ---------------------------------------------------------------- loading

\* load_data without @st.cache_data: every call reads the file.
DataCacheHit_Never(cache) == FALSE

\* Whether st.cache_data holds load_data's result.
DataCacheHit(cache) == cache.cached

\* Whether st.cache_resource holds load_model's result.
ResourceCacheHit(cache) == cache.cached

\* load_data(): the cached value (st.cache_data hands out a copy of it), or the
\* file's content on a miss.
load_data == IF DataCacheHit(data_cache) THEN data_cache.value ELSE csv_file

\* load_model(): the cached bundle, or the file's content on a miss.
load_model == IF ResourceCacheHit(resource_cache) THEN resource_cache.value ELSE pkl_file

\* The caches and read counts after the two loads of a run.  Line 24 assigns
\* the parsed column to the copy load_data returned, not to the cached value.
LoadEffects ==
    /\ data_cache' = [cached |-> TRUE, value |-> load_data]
    /\ csv_reads' = IF DataCacheHit(data_cache) THEN csv_reads ELSE csv_reads + 1
    /\ resource_cache' = [cached |-> TRUE, value |-> load_model]
    /\ pkl_reads' = IF ResourceCacheHit(resource_cache) THEN pkl_reads ELSE pkl_reads + 1

\* df_sales of a run started now.
DfNow == ToDatetimeColumn(load_data)

\* ---------------------------------------------------------------- widgets

UniqueRegions(df) == {df[i].Wilayah : i \in DOMAIN df}
UniqueCategories(df) == {df[i].Kategori : i \in DOMAIN df}

min_date(df) == DateOf(SetMin({df[i].Tanggal_Pesanan : i \in DOMAIN df}))
max_date(df) == DateOf(SetMax({df[i].Tanggal_Pesanan : i \in DOMAIN df}))

\* What the date-range picker can return: no date, one date, or two dates in
\* order, each within [min_date, max_date].
DateRangeChoices(df) ==
    LET ds == min_date(df)..max_date(df)
    IN  {<<>>} \cup {<<a>> : a \in ds}
        \cup {p \in ds \X ds : p[1] <= p[2]}

DefaultDateRange(df) == <<min_date(df), max_date(df)>>

\* The values the prediction form can hold.
PredChoices ==
    [target_date_ordinal : {739047, 739048}, avg_quantity : {2},
     avg_unit_price : {100}, avg_discount : {10},
     day_of_week_encoded : {0, 6}, hour_of_day : {14}]

DefaultPred ==
    [target_date_ordinal |-> 739047, avg_quantity |-> 2, avg_unit_price |-> 100,
     avg_discount |-> 10, day_of_week_encoded |-> 0, hour_of_day |-> 14]

\* ---------------------------------------------------------------- filters

\* The date filter with a lone date taken as a start date.
DateRangeFilter_SingleAsStart(df, dr) ==
    IF Len(dr) = 2
    THEN SelectSeq(df, LAMBDA r : /\ r.Tanggal_Pesanan >= DateToTimestamp(dr[1])
                                  /\ r.Tanggal_Pesanan <= DateToTimestamp(dr[2]))
    ELSE IF Len(dr) = 1
    THEN SelectSeq(df, LAMBDA r : r.Tanggal_Pesanan >= DateToTimestamp(dr[1]))
    ELSE df

\* Lines 66-73.
DateRangeFilter(df, dr) ==
    IF Len(dr) = 2
    THEN SelectSeq(df, LAMBDA r : /\ r.Tanggal_Pesanan >= DateToTimestamp(dr[1])
                                  /\ r.Tanggal_Pesanan <= DateToTimestamp(dr[2]))
    ELSE df

\* The region filter reading the Kategori column.
RegionFilter_WrongColumn(df, regs) == SelectSeq(df, LAMBDA r : r.Kategori \in regs)

\* Line 82.
RegionFilter(df, regs) == SelectSeq(df, LAMBDA r : r.Wilayah \in regs)

\* Line 90.
CategoryFilter(df, cats) == SelectSeq(df, LAMBDA r : r.Kategori \in cats)

\* Lines 52-92.
FilteredDf(pg, df, dr, regs, cats) ==
    IF pg = Overview
    THEN CategoryFilter(RegionFilter(DateRangeFilter(df, dr), regs), cats)
    ELSE df

\* The guard testing for the other page.
EmptyResult_WrongPage(pg, fdf) == pg = Prediksi /\ fdf = <<>>

\* Line 96.
EmptyResult(pg, fdf) == pg = Overview /\ fdf = <<>>

\* ----------------------------------------------------------- aggregations

\* The quotient without its guard.
AvgOrderValue_Unguarded(sales, orders) == TrueDivide(sales, orders)

\* Line 111.
AvgOrderValue(sales, orders) ==
    IF orders > 0 THEN TrueDivide(sales, orders) ELSE IntZero

\* Lines 127-131.
SalesByMonth(fdf) ==
    LET grouped == GroupByBulan(fdf)
        periods == [i \in DOMAIN grouped |->
                        [grouped[i] EXCEPT !.Bulan = ToPeriod(grouped[i].Bulan)]]
        sorted == SortByPeriod(periods)
    IN  [i \in DOMAIN sorted |->
            [sorted[i] EXCEPT !.Bulan = PeriodToStr(sorted[i].Bulan)]]

\* The table without nlargest's limit.
TopProductsSales_NoLimit(fdf) ==
    NLargest(Len(GroupByProduk(fdf)), GroupByProduk(fdf))

\* Line 161.
TopProductsSales(fdf) == NLargest(TopN, GroupByProduk(fdf))

\* ------------------------------------------------------------- prediction

\* Lines 324-331: the six values in the order the script lists them, under the
\* column names of model_features.  pd.DataFrame raises ValueError when the
\* number of names is not the number of values.
InputForPrediction(pw, features) ==
    LET values == <<pw.target_date_ordinal, pw.avg_quantity, pw.avg_unit_price,
                    pw.avg_discount, pw.day_of_week_encoded, pw.hour_of_day>>
    IN  IF Len(features) = Len(values)
        THEN [raised |-> FALSE,
              row |-> [i \in 1..Len(values) |-> [column |-> features[i], value |-> values[i]]]]
        ELSE [raised |-> TRUE, row |-> <<>>]

RECURSIVE SumValues(_)
SumValues(row) == IF row = <<>> THEN 0 ELSE row[1].value + SumValues(Tail(row))

\* Line 334: predict on the row's values by position.
Predict(estimator, row) ==
    IF estimator = "fitted"
    THEN [raised |-> FALSE, value |-> SumValues(row)]
    ELSE [raised |-> TRUE, value |-> 0]

Msg(k, c, v) == [kind |-> k, cause |-> c, value |-> v]


\* ------------------------------------------------------------ one script run

Head2 == <<"title", "sidebar">>
OverviewSections == <<"metrics", "monthly_sales", "top_products", "category_pie",
                      "payment_methods", "regions", "raw_data">>

\* The whole script, lines 17-353, run with the given widget values; clicked is
\* what st.button returns in this run.
ScriptRun(pg, dr, regs, cats, pw, clicked) ==
    LET df == DfNow
        bundle == load_model
        fdf == FilteredDf(pg, df, dr, regs, cats)
        stop == EmptyResult(pg, fdf)
        shown == pg = Overview /\ ~stop
        sales == SumTotals(fdf)
        orders == NUnique(fdf)
        built == InputForPrediction(pw, bundle.model_features)
        pred == Predict(bundle.estimator, built.row)
        predicting == pg = Prediksi /\ clicked
    IN  /\ LoadEffects
        /\ history' = IF history = "replaced" THEN "rerun_after_replace" ELSE history
        /\ UNCHANGED disk
        \* Streamlit drops the value of a widget the run does not draw.
        /\ pilihan_halaman' = pg
        /\ date_range' = IF pg = Overview THEN dr ELSE <<>>
        /\ selected_regions' = IF pg = Overview THEN regs ELSE {}
        /\ selected_categories' = IF pg = Overview THEN cats ELSE {}
        /\ pred_widgets' = IF pg = Prediksi THEN pw ELSE DefaultPred
        /\ df_sales' = df
        /\ sales_prediction_model' = bundle.estimator
        /\ model_features' = bundle.model_features
        /\ base_month_ordinal' = bundle.base_month_ordinal
        /\ filtered_df' = fdf
        /\ total_sales' = IF shown THEN sales ELSE 0
        /\ total_orders' = IF shown THEN orders ELSE 0
        /\ avg_order_value' = IF shown THEN AvgOrderValue(sales, orders) ELSE IntZero
        /\ total_products_sold' = IF shown THEN SumJumlah(fdf) ELSE 0
        /\ sales_by_month' = IF shown THEN SalesByMonth(fdf) ELSE <<>>
        /\ top_products_sales' = IF shown THEN TopProductsSales(fdf) ELSE <<>>
        /\ button_clicked' = predicting
        /\ input_for_prediction' = IF predicting /\ ~built.raised THEN built.row ELSE <<>>
        /\ run_status' =
              IF stop THEN "stopped"
              ELSE IF predicting /\ built.raised THEN "exception"
              ELSE "completed"
        /\ rendered' =
              IF stop THEN Head2
              ELSE IF pg = Overview THEN Head2 \o OverviewSections \o <<"footer">>
              ELSE IF ~predicting THEN Head2 \o <<"prediction_form", "footer">>
              ELSE IF built.raised THEN Head2 \o <<"prediction_form">>
              ELSE IF pred.raised THEN Head2 \o <<"prediction_form", "footer">>
              ELSE Head2 \o <<"prediction_form", "prediction_result", "footer">>
        /\ messages' =
              IF stop THEN <<Msg("warning", "empty_filter", 0)>>
              ELSE IF ~predicting THEN <<>>
              ELSE IF built.raised THEN <<Msg("exception", "ValueError", 0)>>
              ELSE IF pred.raised THEN <<Msg("error", "predict", 0)>>
              ELSE <<Msg("success", "", pred.value), Msg("info", "", 0)>>

\* ---------------------------------------------------------------- actions

Started == run_status # "not_run"

\* A browser opens the app: the first run, every widget at its default.
OpenApp ==
    /\ ~Started
    /\ ScriptRun(Overview, DefaultDateRange(DfNow), UniqueRegions(DfNow),
                 UniqueCategories(DfNow), DefaultPred, FALSE)

\* The user reruns the script without touching a widget.
Rerun ==
    /\ Started
    /\ ScriptRun(pilihan_halaman, date_range, selected_regions,
                 selected_categories, pred_widgets, FALSE)

\* The user picks the other page; its widgets appear at their defaults.
SelectPage ==
    /\ Started
    /\ \E pg \in {Overview, Prediksi} \ {pilihan_halaman} :
          ScriptRun(pg, DefaultDateRange(DfNow), UniqueRegions(DfNow),
                    UniqueCategories(DfNow), DefaultPred, FALSE)

ChangeDateRange ==
    /\ Started
    /\ pilihan_halaman = Overview
    /\ \E dr \in DateRangeChoices(DfNow) \ {date_range} :
          ScriptRun(Overview, dr, selected_regions, selected_categories,
                    pred_widgets, FALSE)

ChangeRegions ==
    /\ Started
    /\ pilihan_halaman = Overview
    /\ \E regs \in (SUBSET UniqueRegions(DfNow)) \ {selected_regions} :
          ScriptRun(Overview, date_range, regs, selected_categories,
                    pred_widgets, FALSE)

ChangeCategories ==
    /\ Started
    /\ pilihan_halaman = Overview
    /\ \E cats \in (SUBSET UniqueCategories(DfNow)) \ {selected_categories} :
          ScriptRun(Overview, date_range, selected_regions, cats,
                    pred_widgets, FALSE)

\* The user moves one input of the prediction form.
ChangePredictionInput ==
    /\ Started
    /\ pilihan_halaman = Prediksi
    /\ \E pw \in PredChoices :
          /\ Cardinality({f \in DOMAIN pw : pw[f] # pred_widgets[f]}) = 1
          /\ ScriptRun(Prediksi, date_range, selected_regions,
                       selected_categories, pw, FALSE)

\* The user presses "Hitung Prediksi Penjualan".
ClickPredict ==
    /\ Started
    /\ pilihan_halaman = Prediksi
    /\ ScriptRun(Prediksi, date_range, selected_regions, selected_categories,
                 pred_widgets, TRUE)

Next ==
    \/ OpenApp
    \/ Rerun
    \/ SelectPage
    \/ ChangeDateRange
    \/ ChangeRegions
    \/ ChangeCategories
    \/ ChangePredictionInput
    \/ ClickPredict

\* The state at process start, before any run: nothing loaded, nothing drawn.
InitWith(datasets, bundles) ==
    /\ csv_file \in datasets
    /\ pkl_file \in bundles
    /\ data_cache = [cached |-> FALSE, value |-> <<>>]
    /\ resource_cache = [cached |-> FALSE, value |-> CanonicalBundle]
    /\ csv_reads = 0
    /\ pkl_reads = 0
    /\ history = "fresh"
    /\ pilihan_halaman = Overview
    /\ date_range = <<>>
    /\ selected_regions = {}
    /\ selected_categories = {}
    /\ pred_widgets = DefaultPred
    /\ df_sales = <<>>
    /\ sales_prediction_model = "fitted"
    /\ model_features = <<>>
    /\ base_month_ordinal = 0
    /\ filtered_df = <<>>
    /\ total_sales = 0
    /\ total_orders = 0
    /\ avg_order_value = IntZero
    /\ total_products_sold = 0
    /\ sales_by_month = <<>>
    /\ top_products_sales = <<>>
    /\ button_clicked = FALSE
    /\ input_for_prediction = <<>>
    /\ run_status = "not_run"
    /\ rendered = <<>>
    /\ messages = <<>>

\* Filtering: datasets that differ in dates, regions and categories.
Init == InitWith(DateDatasets \cup SelDatasets, {CanonicalBundle})
Spec == Init /\ [][Next]_vars

\* Metrics: datasets that differ in order ids and amounts.
InitAgg == InitWith(AggDatasets, {CanonicalBundle})
SpecAgg == InitAgg /\ [][Next]_vars

\* Monthly totals: datasets that differ in month labels.
InitMonth == InitWith(MonthDatasets, {CanonicalBundle})
SpecMonth == InitMonth /\ [][Next]_vars

\* Top products: datasets with more than TopN products.
InitTop == InitWith(TopDatasets, {CanonicalBundle})
SpecTop == InitTop /\ [][Next]_vars

\* Prediction: every feature order, well-formed or not.
InitPredict == InitWith({OneDataset}, PredictBundles)
SpecPredict == InitPredict /\ [][Next]_vars


\* Caching: the files on disk may be rewritten while the process runs.
CacheRows == {Row(1, d, 0, w, "Elektronik", 1, 1, DefaultLabel) :
                d \in Days, w \in Regions}
CacheDatasets == SeqsUpTo(CacheRows, 1)
CacheBundles == {CanonicalBundle, OtherBundle, Bundle("raising", FeatureNames),
                 Bundle("fitted", SubSeq(FeatureNames, 1, 5))}

\* Something outside the process rewrites the dataset file.
ReplaceCsv ==
    /\ \E d \in CacheDatasets \ {csv_file} : csv_file' = d
    /\ history' = "replaced"
    /\ UNCHANGED <<pkl_file, process, widgets, names, page>>

\* Something outside the process rewrites the model file.
ReplacePkl ==
    /\ \E b \in CacheBundles \ {pkl_file} : pkl_file' = b
    /\ history' = "replaced"
    /\ UNCHANGED <<csv_file, process, widgets, names, page>>

NextCache ==
    \/ Next
    \/ ReplaceCsv
    \/ ReplacePkl

InitCache == InitWith(CacheDatasets, CacheBundles)
SpecCache == InitCache /\ [][NextCache]_vars

\* ------------------------------------------------------------- properties

OnOverview == Started /\ pilihan_halaman = Overview
Shown == OnOverview /\ run_status = "completed"
Predicting == Started /\ pilihan_halaman = Prediksi /\ button_clicked

IsZero(v) == v.kind = "finite" /\ v.num = 0
Has(seq, x) == \E i \in DOMAIN seq : seq[i] = x
HasKind(k) == \E i \in DOMAIN messages : messages[i].kind = k

SelectedOnly(df) ==
    SelectSeq(df, LAMBDA r : r.Wilayah \in selected_regions
                             /\ r.Kategori \in selected_categories)

\* C1: on the Prediction page, for every permutation of the six feature names
\* loaded with the model, the row handed to predict holds, in the column of each
\* feature, the value the user chose for that feature.
C1_ValuesFollowFeatureOrder ==
    (Predicting /\ model_features \in Permutations6) =>
        /\ Len(input_for_prediction) = 6
        /\ \A i \in 1..6 :
              /\ input_for_prediction[i].column = model_features[i]
              /\ input_for_prediction[i].value = pred_widgets[model_features[i]]

\* C2: when the predict button is pressed and assembling the row fails (the
\* feature list has not six names) or predict fails, the run ends in the
\* prediction-error outcome: an error message is shown, no predicted value is
\* shown, and the run does not end in an uncaught exception.
C2_FailureEndsInPredictionError ==
    (Predicting /\ (Len(model_features) # 6 \/ sales_prediction_model = "raising")) =>
        /\ run_status = "completed"
        /\ HasKind("error")
        /\ ~HasKind("success")
        /\ ~Has(rendered, "prediction_result")

\* C3: with a two-date range [a, b], a <= b, the filtered collection holds
\* exactly the selected records whose order date falls on a day of a..b, the
\* days a and b included at any time of day.
C3_DateRangeClosedInterval ==
    (OnOverview /\ Len(date_range) = 2) =>
        filtered_df =
            SelectSeq(SelectedOnly(df_sales),
                      LAMBDA r : DateOf(r.Tanggal_Pesanan) \in date_range[1]..date_range[2])

\* C4: with fewer than two dates from the picker the filter step does not raise
\* and applies no date constraint: the result is the dataset restricted by the
\* selected regions and categories only.
C4_FewerThanTwoEndpoints ==
    (OnOverview /\ Len(date_range) < 2) =>
        /\ run_status # "exception"
        /\ filtered_df = SelectedOnly(df_sales)

\* A run with one date picked that kept a record dated before that date.
C4_Witness ==
    /\ OnOverview
    /\ Len(date_range) = 1
    /\ \E i \in DOMAIN filtered_df :
          DateOf(filtered_df[i].Tanggal_Pesanan) < date_range[1]

\* C5: on the Overview page a run whose filtered collection is empty shows the
\* warning and halts before any metric, chart or raw-data table is drawn, the
\* halt is no error and the next run can start; a run whose filtered
\* collection is not empty shows no warning and draws them all.
C5_EmptyResultHalts ==
    OnOverview =>
        /\ filtered_df = <<>> =>
              /\ run_status = "stopped"
              /\ HasKind("warning")
              /\ \A i \in DOMAIN OverviewSections : ~Has(rendered, OverviewSections[i])
              /\ ~HasKind("exception")
              /\ ENABLED Rerun
        /\ filtered_df # <<>> =>
              /\ run_status = "completed"
              /\ ~HasKind("warning")
              /\ \A i \in DOMAIN OverviewSections : Has(rendered, OverviewSections[i])

\* A halted run over a dataset that has records, with regions and categories
\* still selected: the date range alone emptied the result.
C5_Witness ==
    /\ OnOverview
    /\ run_status = "stopped"
    /\ df_sales # <<>>
    /\ selected_regions # {}
    /\ selected_categories # {}

\* C6: with every region and every category of the dataset selected, the
\* filtered collection has as many records as the dataset restricted by the
\* date range alone.
C6_FullSelectionRemovesNothing ==
    (/\ OnOverview
     /\ selected_regions = UniqueRegions(df_sales)
     /\ selected_categories = UniqueCategories(df_sales)) =>
        Len(filtered_df) = Len(DateRangeFilter(df_sales, date_range))

\* Two regions and two categories, all selected, and a date range that removed
\* some record and kept another.
C6_Witness ==
    /\ OnOverview
    /\ Cardinality(UniqueRegions(df_sales)) = 2
    /\ Cardinality(UniqueCategories(df_sales)) = 2
    /\ selected_regions = UniqueRegions(df_sales)
    /\ selected_categories = UniqueCategories(df_sales)
    /\ Len(date_range) = 2
    /\ Len(filtered_df) > 0
    /\ Len(filtered_df) < Len(df_sales)

\* C7, as stated: the average order value is 0 exactly when the number of
\* distinct order ids is 0, and no division by zero happens.
C7_ZeroExactlyWhenNoOrders ==
    Shown =>
        /\ avg_order_value.kind = "finite"
        /\ IsZero(avg_order_value) <=> total_orders = 0

\* C7, amended: the average order value is 0 whenever the number of distinct
\* order ids is 0, it is total_sales / order count otherwise (so with a
\* positive order count it is 0 exactly when total_sales is 0), and no division
\* by zero happens.
C7_ZeroWhenNoOrders ==
    Shown =>
        /\ avg_order_value.kind = "finite"
        /\ total_orders = NUnique(filtered_df)
        /\ total_orders = 0 => IsZero(avg_order_value)
        /\ total_orders > 0 =>
              /\ avg_order_value.num = total_sales
              /\ avg_order_value.den = total_orders
              /\ IsZero(avg_order_value) <=> total_sales = 0

\* Metrics drawn over records none of which has an order id.
C7_Witness ==
    /\ Shown
    /\ total_orders = 0
    /\ total_sales > 0

ProductsOf(df) == {df[i].Produk : i \in DOMAIN df}

\* C8: the top-products table has at most TopN rows, one per product, each
\* with the summed total amount of its product, in descending order of that
\* sum, and the sum over the table is at most total_sales.
C8_TopProducts ==
    Shown =>
        LET t == top_products_sales
        IN  /\ Len(t) <= TopN
            /\ \A i, j \in DOMAIN t : t[i].Produk = t[j].Produk => i = j
            /\ \A i \in DOMAIN t :
                  /\ t[i].Produk \in ProductsOf(filtered_df)
                  /\ t[i].Total_Penjualan =
                        SumTotals(SelectSeq(filtered_df, LAMBDA r : r.Produk = t[i].Produk))
            /\ \A i, j \in DOMAIN t : i < j => t[i].Total_Penjualan >= t[j].Total_Penjualan
            /\ SumTotals(t) <= total_sales

\* More products than the table holds: the table is full and leaves sales out.
C8_Witness ==
    /\ Shown
    /\ Cardinality(ProductsOf(filtered_df)) > TopN
    /\ Len(top_products_sales) = TopN
    /\ SumTotals(top_products_sales) < total_sales

PeriodsOf(df) == {ToPeriod(df[i].Bulan) : i \in DOMAIN df}

\* C9: the monthly-totals table has exactly one row per distinct month of the
\* filtered collection, holding the sum of that month's total amounts, and its
\* rows are in chronological order whatever the order of the labels' text or of
\* the input records.
C9_MonthlyTotalsChronological ==
    Shown =>
        LET t == sales_by_month
        IN  /\ PeriodsOf(t) = PeriodsOf(filtered_df)
            /\ Len(t) = Cardinality(PeriodsOf(filtered_df))
            /\ \A i \in DOMAIN t :
                  t[i].Total_Penjualan =
                      SumTotals(SelectSeq(filtered_df,
                          LAMBDA r : ToPeriod(r.Bulan) = ToPeriod(t[i].Bulan)))
            /\ \A i, j \in DOMAIN t : i < j => ToPeriod(t[i].Bulan) < ToPeriod(t[j].Bulan)

\* Three months whose labels sort differently as text, met out of order in the
\* input.
C9_Witness ==
    /\ Shown
    /\ Len(sales_by_month) = 3
    /\ Len(filtered_df) = 3
    /\ filtered_df[1].Bulan.fmt = "name"
    /\ ToPeriod(filtered_df[1].Bulan) > ToPeriod(filtered_df[2].Bulan)
    /\ LexRank(filtered_df[1].Bulan) < LexRank(filtered_df[2].Bulan)

\* C10: each file is read at most once, by the first run; from then on every
\* run, whatever it follows, reads no file, works on the same dataset,
\* estimator, feature list and base date, and leaves both cache entries as
\* they were.
C10_LoadedOnce ==
    [][/\ csv_reads' <= 1
       /\ pkl_reads' <= 1
       /\ Started =>
            /\ csv_reads' = csv_reads
            /\ pkl_reads' = pkl_reads
            /\ df_sales' = df_sales
            /\ sales_prediction_model' = sales_prediction_model
            /\ model_features' = model_features
            /\ base_month_ordinal' = base_month_ordinal
            /\ data_cache' = data_cache
            /\ resource_cache' = resource_cache]_vars

\* A run that came after both files were rewritten.
C10_Witness ==
    /\ history = "rerun_after_replace"
    /\ csv_file # data_cache.value
    /\ pkl_file # resource_cache.value
    /\ csv_reads = 1
    /\ pkl_reads = 1

=============================================================================
